---- MODULE Spec2Model ----
(***************************************************************************)
(* Model of txt2image.py: the latent-size resolver (to_latent_size) and    *)
(* the generation script (__main__): conditioning pull, denoising loop,    *)
(* batched decoding, output assembly (raw files or one grid image), and    *)
(* the peak-memory / wall-clock instrumentation.                           *)
(*                                                                         *)
(* The ChromaPipeline (generate_latents, decode) and the MLX memory        *)
(* counter are collaborators outside the script; they are modelled as      *)
(* deterministic mocks whose behaviour is drawn in Init.                   *)
(***************************************************************************)
EXTENDS Integers, Sequences, FiniteSets, TLC

VARIABLES
    pc,             \* position of the script ("failed" after an uncaught exception)
    error,          \* name of the uncaught exception, "" when none
    args,           \* argparse namespace (line 72)
    yields,         \* number of items the Pipeline's generator yields in this run:
                    \* steps + 1 by its contract, one more or one fewer when it breaks it
    heavy,          \* phase in which the memory backend sees its high usage
    latent_size,    \* result of to_latent_size (line 82), <<>> before
    warnings,       \* number of diagnostics printed by to_latent_size
    pos,            \* generator position: index of the next item to yield
    conditioning,   \* line 96, Unbound before
    x_t,            \* loop variable of line 107, Unbound until the first iteration
    i,              \* loop variable of line 118 / 131
    decoded,        \* list of decoded sub-batches (line 117)
    peak,           \* the backend's peak-memory counter, whole GiB
    mem,            \* peak_mem_conditioning / generation / decoding / overall
    refs,           \* model references still held by chroma ("t5", "flow")
    start,          \* line 105
    elapsed_time,   \* line 147, -1 before
    files,          \* files written so far: sequence of [name, image]
    printed,        \* number of telemetry lines printed (lines 150-154)
    trace,          \* history of the operations the script has performed
    shadow          \* what the previous run of the script on the same inputs did
                    \* (NoShadow in a first run)

vars == <<pc, error, args, yields, heavy, latent_size, warnings, pos, conditioning,
          x_t, i, decoded, peak, mem, refs, start, elapsed_time, files, printed, trace,
          shadow>>

(***************************************************************************)
(* Bounds of the model.                                                    *)
(***************************************************************************)
MaxImages == 4      \* --n-images ranges over 1..MaxImages
MaxSteps == 2       \* --steps ranges over 0..MaxSteps
MaxBatch == 3       \* --decoding-batch-size ranges over 1..MaxBatch
MaxRows == 2        \* --n-rows ranges over 1..MaxRows
MaxDim == 40        \* image width and height range over 1..MaxDim (resolver)
ImgH == 1           \* height of an image returned by the mock decode
ImgW == 2           \* width of an image returned by the mock decode
ImgC == 2           \* channels of an image returned by the mock decode
PixelLevels == 4    \* mock pixel values are k / PixelLevels, k in 0..PixelLevels
MemLow == 1         \* mock backend: usage of an ordinary phase, GiB
MemHigh == 3        \* mock backend: usage of the heavy phase, GiB

(***************************************************************************)
(* Program constants.                                                      *)
(***************************************************************************)
Granularity == 16   \* line 16: dimensions are rounded up to a multiple of 16
Downscale == 8      \* line 25: latent size is the pixel size // 8
GridPad == 4        \* line 137: 4 pixels of zero border on each side
MaxPixel == 255     \* line 130 / 141: x * 255

Unbound == [shape |-> <<>>, data |-> <<>>]   \* a name that is not bound yet

Max(a, b) == IF a >= b THEN a ELSE b
Min(a, b) == IF a <= b THEN a ELSE b

(***************************************************************************)
(* to_latent_size (lines 14-25).  image_size is the tuple <<w, h>>.        *)
(***************************************************************************)
RoundUpBad(d) == (d \div Granularity) * Granularity
RoundUp(d) == ((d + (Granularity - 1)) \div Granularity) * Granularity

\* line 19: if (h, w) != image_size -- the rounded (h, w) against the given tuple
NeedsWarning(h, w, image_size) == <<h, w>> # image_size

to_latent_size(image_size) ==
    LET h == RoundUp(image_size[2])
        w == RoundUp(image_size[1])
    IN  [size |-> <<h \div Downscale, w \div Downscale>>,
         warned |-> IF NeedsWarning(h, w, image_size) THEN 1 ELSE 0,
         h |-> h, w |-> w]

(***************************************************************************)
(* Arrays: [shape, data], data in row-major order as in MLX.               *)
(***************************************************************************)
RECURSIVE Prod(_)
Prod(s) == IF s = <<>> THEN 1 ELSE Head(s) * Prod(Tail(s))

\* row-major strides of a shape, and coordinate a of the flat offset k
Strides(shape) == [a \in 1..Len(shape) |-> Prod(SubSeq(shape, a + 1, Len(shape)))]
Coord(k, st, shape, a) == (k \div st[a]) % shape[a]

RECURSIVE SumTo(_, _)
SumTo(f, n) == IF n = 0 THEN 0 ELSE f[n] + SumTo(f, n - 1)

\* x[lo:hi] along axis 0, with Python's clipping of the bounds to len(x)
SliceBad(x, lo, hi) ==
    LET n == x.shape[1]
        l == Min(lo, n)
        h == Max(l, Min(hi - 1, n))
        inner == Prod(Tail(x.shape))
    IN  [shape |-> <<h - l>> \o Tail(x.shape),
         data |-> SubSeq(x.data, l * inner + 1, h * inner)]
Slice(x, lo, hi) ==
    LET n == x.shape[1]
        l == Min(lo, n)
        h == Max(l, Min(hi, n))
        inner == Prod(Tail(x.shape))
    IN  [shape |-> <<h - l>> \o Tail(x.shape),
         data |-> SubSeq(x.data, l * inner + 1, h * inner)]

\* mx.concatenate(list, axis=0) of a non-empty list
RECURSIVE ConcatenateBad(_)
ConcatenateBad(list) ==
    IF Len(list) = 1 THEN list[1]
    ELSE LET rest == ConcatenateBad(Tail(list))
         IN  [shape |-> <<list[1].shape[1] + rest.shape[1]>> \o Tail(list[1].shape),
              data |-> rest.data \o list[1].data]
RECURSIVE Concatenate(_)
Concatenate(list) ==
    IF Len(list) = 1 THEN list[1]
    ELSE LET rest == Concatenate(Tail(list))
         IN  [shape |-> <<list[1].shape[1] + rest.shape[1]>> \o Tail(list[1].shape),
              data |-> list[1].data \o rest.data]

\* mx.pad(x, widths): widths[a] = <<before, after>>, zero fill
Pad(x, widths) ==
    LET ns == [a \in 1..Len(x.shape) |-> x.shape[a] + widths[a][1] + widths[a][2]]
        st == Strides(ns)
        xs == Strides(x.shape)
        Inside(k) == \A a \in 1..Len(ns) :
                        /\ Coord(k, st, ns, a) >= widths[a][1]
                        /\ Coord(k, st, ns, a) < widths[a][1] + x.shape[a]
        Src(k) == SumTo([a \in 1..Len(ns) |->
                           (Coord(k, st, ns, a) - widths[a][1]) * xs[a]], Len(ns))
    IN  [shape |-> ns,
         data |-> [k \in 1..Prod(ns) |->
                     IF Inside(k - 1) THEN x.data[Src(k - 1) + 1] ELSE 0]]

\* x.reshape(ns) succeeds only when the sizes agree
CanReshapeBad(x, ns) == TRUE
CanReshape(x, ns) == Prod(ns) = Prod(x.shape)
Reshape(x, ns) == [shape |-> ns, data |-> x.data]

\* x.transpose(perm): perm is 0-based as in the source
Transpose(x, perm) ==
    LET ns == [a \in 1..Len(perm) |-> x.shape[perm[a] + 1]]
        st == Strides(ns)
        xs == Strides(x.shape)
        Src(k) == SumTo([a \in 1..Len(ns) |->
                           Coord(k, st, ns, a) * xs[perm[a] + 1]], Len(ns))
    IN  [shape |-> ns,
         data |-> [k \in 1..Prod(ns) |-> x.data[Src(k - 1) + 1]]]

\* (x * 255).astype(mx.uint8): the float k / PixelLevels times 255, truncated
ToUint8(v) == ((v * MaxPixel) \div PixelLevels) % 256
Quantize(x) == [shape |-> x.shape, data |-> [k \in 1..Len(x.data) |-> ToUint8(x.data[k])]]

(***************************************************************************)
(* File names: strings are sequences of characters.                        *)
(***************************************************************************)
\* s.split("."): the pieces of s between dots
RECURSIVE Split(_)
Split(s) ==
    IF \A k \in 1..Len(s) : s[k] # "." THEN <<s>>
    ELSE LET d == CHOOSE k \in 1..Len(s) : s[k] = "." /\ \A j \in 1..(k - 1) : s[j] # "."
         IN  <<SubSeq(s, 1, d - 1)>> \o Split(SubSeq(s, d + 1, Len(s)))

\* ".".join(parts)
RECURSIVE Join(_)
Join(parts) ==
    IF Len(parts) = 0 THEN <<>>
    ELSE IF Len(parts) = 1 THEN parts[1]
    ELSE parts[1] \o <<".">> \o Join(Tail(parts))

Digit(d) == <<"0", "1", "2", "3", "4", "5", "6", "7", "8", "9">>[d + 1]
\* str(n) for n >= 0
RECURSIVE Str(_)
Str(n) == IF n < 10 THEN <<Digit(n)>> ELSE Str(n \div 10) \o <<Digit(n % 10)>>

\* lines 127-128 and 133: *name, suffix = output.split("."); name.i.suffix
RawNameBad(output, k) ==
    LET parts == Split(output)
    IN  Join(<<parts[1], Str(k), parts[Len(parts)]>>)
RawName(output, k) ==
    LET parts == Split(output)
        name == Join(SubSeq(parts, 1, Len(parts) - 1))
        suffix == parts[Len(parts)]
    IN  Join(<<name, Str(k), suffix>>)

(***************************************************************************)
(* The collaborators, as mocks.                                            *)
(***************************************************************************)
\* item j of chroma.generate_latents(...): a batch of n latents, one per image;
\* item 0 is the conditioning, items 1.. are the denoising steps
LatentOf(j, img) == j * (MaxImages + 1) + img
Item(j, n) == [shape |-> <<n>>, data |-> [k \in 1..n |-> LatentOf(j, k - 1)]]

\* chroma.decode(latent_batch, latent_size): deterministic, image by image.
\* Pixel p of the image decoded from latent v: even pixels tell the image's index,
\* odd pixels the item's index, so that images of different latents differ
PixelOf(v, p) ==
    IF p % 2 = 0 THEN ((v % (MaxImages + 1)) + p) % (PixelLevels + 1)
    ELSE ((v \div (MaxImages + 1)) + p) % (PixelLevels + 1)
Decode(lat, size) ==
    LET ns == <<lat.shape[1], ImgH, ImgW, ImgC>>
        per == ImgH * ImgW * ImgC
    IN  [shape |-> ns,
         data |-> [k \in 1..Prod(ns) |->
                     PixelOf(lat.data[((k - 1) \div per) + 1], (k - 1) % per)]]

\* memory the backend sees while a phase's tensors are evaluated
Usage(phase) == IF heavy = phase THEN MemHigh ELSE MemLow

\* mx.get_peak_memory() / 1024**3, the counter being kept in GiB
GetPeakMemory == peak

\* time.perf_counter(): one tick per operation performed so far
PerfCounterBad(tr) == 0
PerfCounter(tr) == Len(tr)

Ev(op, arg) == [op |-> op, arg |-> arg]
Log(op, arg) == trace' = Append(trace, Ev(op, arg))
Fail(exc) == pc' = "failed" /\ error' = exc

(***************************************************************************)
(* Inputs.                                                                 *)
(***************************************************************************)
DefaultOutput == <<"o", "u", "t", ".", "p", "n", "g">>     \* line 64
DefaultImageSize == <<512, 512>>                           \* line 55
\* values of --output: out.png, result.png, a.b.png, and out (no extension)
Outputs == {DefaultOutput,
            <<"r", "e", "s", "u", "l", "t", ".", "p", "n", "g">>,
            <<"a", ".", "b", ".", "p", "n", "g">>,
            <<"o", "u", "t">>}

Args ==
    [n_images : 1..MaxImages,
     steps : 0..MaxSteps,
     decoding_batch_size : 1..MaxBatch,
     n_rows : 1..MaxRows,
     save_raw : BOOLEAN,
     verbose : BOOLEAN,
     image_size : {DefaultImageSize},
     output : {DefaultOutput}]

NoMem == [conditioning |-> -1, generation |-> -1, decoding |-> -1, overall |-> -1]
NoShadow == [run |-> 0, pc |-> "", error |-> "", trace |-> <<>>, mem |-> NoMem,
             files |-> <<>>, refs |-> {}, elapsed_time |-> -1, printed |-> 0]

InitCommon ==
    /\ error = ""
    /\ latent_size = <<>>
    /\ warnings = 0
    /\ pos = 0
    /\ conditioning = Unbound
    /\ x_t = Unbound
    /\ i = 0
    /\ decoded = <<>>
    /\ peak = 0
    /\ mem = NoMem
    /\ refs = {"t5", "flow"}
    /\ start = -1
    /\ elapsed_time = -1
    /\ files = <<>>
    /\ printed = 0
    /\ trace = <<>>
    /\ shadow = NoShadow

Init ==
    /\ pc = "make_generator"
    /\ args \in Args
    /\ yields \in {y \in 0..(MaxSteps + 2) : y >= args.steps /\ y <= args.steps + 2}
    /\ heavy \in {"conditioning", "generation", "decoding"}
    /\ InitCommon

(***************************************************************************)
(* The script, one action per statement.                                   *)
(***************************************************************************)
\* lines 82-93: latent_size = to_latent_size(...); latents = generate_latents(...)
\* (the generator is lazy: nothing is pulled here)
MakeGenerator ==
    /\ pc = "make_generator"
    /\ latent_size' = to_latent_size(args.image_size).size
    /\ warnings' = warnings + to_latent_size(args.image_size).warned
    /\ pos' = 0
    /\ pc' = "pull_conditioning"
    /\ UNCHANGED <<shadow, error, args, yields, heavy, conditioning, x_t, i, decoded, peak, mem,
                   refs, start, elapsed_time, files, printed, trace>>

\* the generator at position p has nothing more to yield: next() raises StopIteration
Exhausted(p) == p >= yields

\* line 96: conditioning = next(latents); StopIteration when nothing is yielded
PullConditioning ==
    /\ pc = "pull_conditioning"
    /\ IF Exhausted(pos)
       THEN /\ Fail("StopIteration")
            /\ Log("pull_conditioning", -1)
            /\ UNCHANGED <<conditioning, pos>>
       ELSE /\ conditioning' = Item(pos, args.n_images)
            /\ pos' = pos + 1
            /\ Log("pull_conditioning", pos)
            /\ pc' = "eval_conditioning"
            /\ UNCHANGED error
    /\ UNCHANGED <<shadow, args, yields, heavy, latent_size, warnings, x_t, i, decoded, peak, mem,
                   refs, start, elapsed_time, files, printed>>

\* line 97: mx.eval(conditioning)
EvalConditioning ==
    /\ pc = "eval_conditioning"
    /\ peak' = Max(peak, Usage("conditioning"))
    /\ Log("eval_conditioning", 0)
    /\ pc' = "read_peak_conditioning"
    /\ UNCHANGED <<shadow, error, args, yields, heavy, latent_size, warnings, pos, conditioning,
                   x_t, i, decoded, mem, refs, start, elapsed_time, files, printed>>

\* line 98: peak_mem_conditioning = mx.get_peak_memory() / 1024**3
ReadPeakConditioning ==
    /\ pc = "read_peak_conditioning"
    /\ mem' = [mem EXCEPT !.conditioning = GetPeakMemory]
    /\ Log("peak_read", 0)
    /\ pc' = "reset_peak_conditioning"
    /\ UNCHANGED <<shadow, error, args, yields, heavy, latent_size, warnings, pos, conditioning,
                   x_t, i, decoded, peak, refs, start, elapsed_time, files, printed>>

\* line 99: mx.reset_peak_memory()
ResetPeakConditioningBad ==
    /\ pc = "reset_peak_conditioning"
    /\ pc' = "del_t5"
    /\ UNCHANGED <<shadow, error, args, yields, heavy, latent_size, warnings, pos, conditioning,
                   x_t, i, decoded, peak, mem, refs, start, elapsed_time, files, printed,
                   trace>>
ResetPeakConditioning ==
    /\ pc = "reset_peak_conditioning"
    /\ peak' = 0
    /\ Log("peak_reset", 0)
    /\ pc' = "del_t5"
    /\ UNCHANGED <<shadow, error, args, yields, heavy, latent_size, warnings, pos, conditioning,
                   x_t, i, decoded, mem, refs, start, elapsed_time, files, printed>>

\* line 103: del chroma.t5
DelT5Bad ==
    /\ pc = "del_t5"
    /\ refs' = refs \ {"flow"}
    /\ Log("del_flow", 0)
    /\ pc' = "timer_start"
    /\ UNCHANGED <<shadow, error, args, yields, heavy, latent_size, warnings, pos,
                   conditioning, x_t, i, decoded, peak, mem, start, elapsed_time, files,
                   printed>>
DelT5 ==
    /\ pc = "del_t5"
    /\ refs' = refs \ {"t5"}
    /\ Log("del_t5", 0)
    /\ pc' = "timer_start"
    /\ UNCHANGED <<shadow, error, args, yields, heavy, latent_size, warnings, pos, conditioning,
                   x_t, i, decoded, peak, mem, start, elapsed_time, files, printed>>

\* line 105: start = time.perf_counter()
TimerStart ==
    /\ pc = "timer_start"
    /\ start' = PerfCounter(trace)
    /\ Log("timer_start", 0)
    /\ pc' = "denoise_pull"
    /\ UNCHANGED <<shadow, error, args, yields, heavy, latent_size, warnings, pos, conditioning,
                   x_t, i, decoded, peak, mem, refs, elapsed_time, files, printed>>

\* line 107: the for loop ends when the generator is exhausted, and only then
\* (total=args.steps is the length of the progress bar, not a limit)
LoopEndsBad(p) == Exhausted(p) \/ p >= args.steps
LoopEnds(p) == Exhausted(p)

\* line 107: for x_t in tqdm(latents, total=args.steps): one next(latents)
DenoisePullBad ==
    /\ pc = "denoise_pull"
    /\ IF LoopEnds(pos)
       THEN /\ Log("pull_x_t", -1)
            /\ pc' = "del_flow"
            /\ UNCHANGED <<x_t, pos>>
       ELSE /\ x_t' = IF x_t = Unbound THEN Item(pos, args.n_images) ELSE x_t
            /\ pos' = pos + 1
            /\ Log("pull_x_t", pos)
            /\ pc' = "eval_x_t"
    /\ UNCHANGED <<shadow, error, args, yields, heavy, latent_size, warnings, conditioning,
                   i, decoded, peak, mem, refs, start, elapsed_time, files, printed>>
DenoisePull ==
    /\ pc = "denoise_pull"
    /\ IF LoopEnds(pos)
       THEN /\ Log("pull_x_t", -1)
            /\ pc' = "del_flow"
            /\ UNCHANGED <<x_t, pos>>
       ELSE /\ x_t' = Item(pos, args.n_images)
            /\ pos' = pos + 1
            /\ Log("pull_x_t", pos)
            /\ pc' = "eval_x_t"
    /\ UNCHANGED <<shadow, error, args, yields, heavy, latent_size, warnings, conditioning, i,
                   decoded, peak, mem, refs, start, elapsed_time, files, printed>>

\* line 108: mx.eval(x_t)
EvalXt ==
    /\ pc = "eval_x_t"
    /\ peak' = Max(peak, Usage("generation"))
    /\ Log("eval_x_t", pos - 1)
    /\ pc' = "denoise_pull"
    /\ UNCHANGED <<shadow, error, args, yields, heavy, latent_size, warnings, pos, conditioning,
                   x_t, i, decoded, mem, refs, start, elapsed_time, files, printed>>

\* line 112: del chroma.flow
DelFlow ==
    /\ pc = "del_flow"
    /\ refs' = refs \ {"flow"}
    /\ Log("del_flow", 0)
    /\ pc' = "read_peak_generation"
    /\ UNCHANGED <<shadow, error, args, yields, heavy, latent_size, warnings, pos, conditioning,
                   x_t, i, decoded, peak, mem, start, elapsed_time, files, printed>>

\* line 113: peak_mem_generation = mx.get_peak_memory() / 1024**3
ReadPeakGeneration ==
    /\ pc = "read_peak_generation"
    /\ mem' = [mem EXCEPT !.generation = GetPeakMemory]
    /\ Log("peak_read", 1)
    /\ pc' = "reset_peak_generation"
    /\ UNCHANGED <<shadow, error, args, yields, heavy, latent_size, warnings, pos, conditioning,
                   x_t, i, decoded, peak, refs, start, elapsed_time, files, printed>>

\* line 114: mx.reset_peak_memory()
ResetPeakGeneration ==
    /\ pc = "reset_peak_generation"
    /\ peak' = 0
    /\ Log("peak_reset", 1)
    /\ pc' = "init_decoded"
    /\ UNCHANGED <<shadow, error, args, yields, heavy, latent_size, warnings, pos, conditioning,
                   x_t, i, decoded, mem, refs, start, elapsed_time, files, printed>>

\* line 117: decoded = []; line 118 starts range(0, n_images, decoding_batch_size)
InitDecoded ==
    /\ pc = "init_decoded"
    /\ decoded' = <<>>
    /\ i' = 0
    /\ pc' = "decode"
    /\ UNCHANGED <<shadow, error, args, yields, heavy, latent_size, warnings, pos, conditioning,
                   x_t, peak, mem, refs, start, elapsed_time, files, printed, trace>>

\* lines 118-119: one iteration: decoded.append(chroma.decode(x_t[i : i + b], latent_size));
\* NameError when x_t was never bound by the denoising loop
DecodeBatchBad ==
    /\ pc = "decode"
    /\ IF i >= args.n_images
       THEN /\ pc' = "read_peak_decoding"
            /\ UNCHANGED <<error, decoded, trace>>
       ELSE /\ decoded' = Append(decoded,
                    Decode(Slice(IF x_t = Unbound THEN conditioning ELSE x_t,
                                 i, i + args.decoding_batch_size), latent_size))
            /\ Log("decode", i)
            /\ pc' = "eval_decoded"
            /\ UNCHANGED error
    /\ UNCHANGED <<shadow, args, yields, heavy, latent_size, warnings, pos, conditioning, x_t, i,
                   peak, mem, refs, start, elapsed_time, files, printed>>
DecodeBatch ==
    /\ pc = "decode"
    /\ IF i >= args.n_images
       THEN /\ pc' = "read_peak_decoding"
            /\ UNCHANGED <<error, decoded, trace>>
       ELSE IF x_t = Unbound
       THEN /\ Fail("NameError")
            /\ UNCHANGED <<decoded, trace>>
       ELSE /\ decoded' = Append(decoded,
                    Decode(Slice(x_t, i, i + args.decoding_batch_size), latent_size))
            /\ Log("decode", i)
            /\ pc' = "eval_decoded"
            /\ UNCHANGED error
    /\ UNCHANGED <<shadow, args, yields, heavy, latent_size, warnings, pos, conditioning, x_t, i,
                   peak, mem, refs, start, elapsed_time, files, printed>>

\* line 120: mx.eval(decoded[-1]); then the range advances by the batch size
EvalDecodedStreaming ==
    /\ pc = "eval_decoded"
    /\ peak' = Max(peak, Usage("decoding"))
    /\ trace' = trace \o <<Ev("eval_decoded", i), Ev("write", i)>>
    /\ files' = Append(files, [name |-> RawName(args.output, i),
                               image |-> Quantize(decoded[Len(decoded)])])
    /\ i' = i + args.decoding_batch_size
    /\ pc' = "decode"
    /\ UNCHANGED <<shadow, error, args, yields, heavy, latent_size, warnings, pos,
                   conditioning, x_t, decoded, mem, refs, start, elapsed_time, printed>>
EvalDecodedBad ==
    /\ pc = "eval_decoded"
    /\ i' = i + args.decoding_batch_size
    /\ pc' = "decode"
    /\ UNCHANGED <<shadow, error, args, yields, heavy, latent_size, warnings, pos, conditioning,
                   x_t, decoded, peak, mem, refs, start, elapsed_time, files, printed, trace>>
EvalDecoded ==
    /\ pc = "eval_decoded"
    /\ peak' = Max(peak, Usage("decoding"))
    /\ Log("eval_decoded", i)
    /\ i' = i + args.decoding_batch_size
    /\ pc' = "decode"
    /\ UNCHANGED <<shadow, error, args, yields, heavy, latent_size, warnings, pos, conditioning,
                   x_t, decoded, mem, refs, start, elapsed_time, files, printed>>

\* lines 122-124: max(peak_mem_conditioning, peak_mem_generation, peak_mem_decoding)
OverallBad(c, g, d) == c + g + d
Overall(c, g, d) == Max(c, Max(g, d))

\* lines 121-124: peak_mem_decoding and peak_mem_overall
ReadPeakDecodingBad ==
    /\ pc = "read_peak_decoding"
    /\ IF args.verbose
       THEN /\ mem' = [mem EXCEPT !.decoding = GetPeakMemory,
                          !.overall = Max(mem.conditioning, Max(mem.generation, GetPeakMemory))]
            /\ Log("peak_read", 2)
       ELSE UNCHANGED <<mem, trace>>
    /\ pc' = IF args.save_raw THEN "save_raw" ELSE "save_grid"
    /\ i' = 0
    /\ UNCHANGED <<shadow, error, args, yields, heavy, latent_size, warnings, pos,
                   conditioning, x_t, decoded, peak, refs, start, elapsed_time, files, printed>>
ReadPeakDecoding ==
    /\ pc = "read_peak_decoding"
    /\ mem' = [mem EXCEPT !.decoding = GetPeakMemory,
                          !.overall = Overall(mem.conditioning, mem.generation, GetPeakMemory)]
    /\ Log("peak_read", 2)
    /\ pc' = IF args.save_raw THEN "save_raw" ELSE "save_grid"
    /\ i' = 0
    /\ UNCHANGED <<shadow, error, args, yields, heavy, latent_size, warnings, pos, conditioning,
                   x_t, decoded, peak, refs, start, elapsed_time, files, printed>>

\* x[k] of a batch: image k without the batch axis
ImageAt(x, k) ==
    LET s == Slice(x, k, k + 1) IN [shape |-> Tail(s.shape), data |-> s.data]

\* lines 129-130: x = (mx.concatenate(decoded, axis=0) * 255).astype(mx.uint8)
RawBatch(dec) == Quantize(Concatenate(dec))

\* lines 131-133: one iteration of for i in range(len(x)): im.save(name.i.suffix)
SaveRaw ==
    /\ pc = "save_raw"
    /\ LET x == RawBatch(decoded)
       IN  IF i >= x.shape[1]
           THEN /\ pc' = "timer_end"
                /\ UNCHANGED <<files, i, trace>>
           ELSE /\ files' = Append(files, [name |-> RawName(args.output, i),
                                           image |-> ImageAt(x, i)])
                /\ Log("write", i)
                /\ i' = i + 1
                /\ pc' = "save_raw"
    /\ UNCHANGED <<shadow, error, args, yields, heavy, latent_size, warnings, pos, conditioning,
                   x_t, decoded, peak, mem, refs, start, elapsed_time, printed>>

\* lines 136-138: concatenate and pad; B, H, W, C = x.shape
Padded(dec) ==
    Pad(Concatenate(dec), <<<<0, 0>>, <<GridPad, GridPad>>, <<GridPad, GridPad>>, <<0, 0>>>>)

\* line 139: the shape handed to the first reshape
TileShape(s, n_rows) == <<n_rows, s[1] \div n_rows, s[2], s[3], s[4]>>
\* line 140: the shape handed to the second reshape
GridShape(s, n_rows) == <<n_rows * s[2], (s[1] \div n_rows) * s[3], s[4]>>

\* lines 139-141 on the padded batch x
GridBad(x, n_rows) ==
    Quantize(Reshape(Transpose(Reshape(x, TileShape(x.shape, n_rows)), <<0, 1, 2, 3, 4>>),
                     GridShape(x.shape, n_rows)))
Grid(x, n_rows) ==
    Quantize(Reshape(Transpose(Reshape(x, TileShape(x.shape, n_rows)), <<0, 2, 1, 3, 4>>),
                     GridShape(x.shape, n_rows)))

\* lines 136-145: the grid branch; the reshape of line 139 raises ValueError when
\* n_rows * (B // n_rows) differs from B
SaveGrid ==
    /\ pc = "save_grid"
    /\ LET x == Padded(decoded)
       IN  IF ~CanReshape(x, TileShape(x.shape, args.n_rows))
           THEN /\ Fail("ValueError")
                /\ UNCHANGED <<files, trace>>
           ELSE /\ files' = Append(files, [name |-> args.output,
                                           image |-> Grid(x, args.n_rows)])
                /\ Log("write", 0)
                /\ pc' = "timer_end"
                /\ UNCHANGED error
    /\ UNCHANGED <<shadow, args, yields, heavy, latent_size, warnings, pos, conditioning, x_t, i,
                   decoded, peak, mem, refs, start, elapsed_time, printed>>

\* line 147: elapsed_time = end - start
ElapsedBad(end, begin) == end
Elapsed(end, begin) == end - begin

\* lines 146-147: end = time.perf_counter(); elapsed_time = end - start
TimerEnd ==
    /\ pc = "timer_end"
    /\ elapsed_time' = Elapsed(PerfCounter(trace), start)
    /\ Log("timer_end", 0)
    /\ pc' = "report"
    /\ UNCHANGED <<shadow, error, args, yields, heavy, latent_size, warnings, pos, conditioning,
                   x_t, i, decoded, peak, mem, refs, start, files, printed>>

\* lines 149-154: the five telemetry lines, only with --verbose
Report ==
    /\ pc = "report"
    /\ printed' = IF args.verbose THEN 5 ELSE 0
    /\ pc' = "done"
    /\ UNCHANGED <<shadow, error, args, yields, heavy, latent_size, warnings, pos, conditioning,
                   x_t, i, decoded, peak, mem, refs, start, elapsed_time, files, trace>>

Next ==
    \/ MakeGenerator
    \/ PullConditioning
    \/ EvalConditioning
    \/ ReadPeakConditioning
    \/ ResetPeakConditioning
    \/ DelT5
    \/ TimerStart
    \/ DenoisePull
    \/ EvalXt
    \/ DelFlow
    \/ ReadPeakGeneration
    \/ ResetPeakGeneration
    \/ InitDecoded
    \/ DecodeBatch
    \/ EvalDecoded
    \/ ReadPeakDecoding
    \/ SaveRaw
    \/ SaveGrid
    \/ TimerEnd
    \/ Report

Spec == Init /\ [][Next]_vars

(***************************************************************************)
(* The resolver alone: to_latent_size applied (line 82) to every image     *)
(* size <<w, h>> of 1..MaxDim x 1..MaxDim.                                 *)
(***************************************************************************)
InitResolver ==
    /\ pc = "make_generator"
    /\ args \in [n_images : {1}, steps : {0}, decoding_batch_size : {1}, n_rows : {1},
                  save_raw : {FALSE}, verbose : {FALSE},
                  image_size : (1..MaxDim) \X (1..MaxDim), output : {DefaultOutput}]
    /\ yields = 1
    /\ heavy = "generation"
    /\ InitCommon

SpecResolver == InitResolver /\ [][MakeGenerator]_vars

(***************************************************************************)
(* Two runs of the script on the same inputs and the same Pipeline and     *)
(* memory backend: the first without --verbose, the second with it.        *)
(***************************************************************************)
\* the first run has ended; the script is started again with --verbose added
RunAgain ==
    /\ pc \in {"done", "failed"}
    /\ shadow.run = 0
    /\ ~args.verbose
    /\ shadow' = [run |-> 1, pc |-> pc, error |-> error, trace |-> trace, mem |-> mem,
                  files |-> files, refs |-> refs, elapsed_time |-> elapsed_time,
                  printed |-> printed]
    /\ args' = [args EXCEPT !.verbose = TRUE]
    /\ pc' = "make_generator"
    /\ error' = ""
    /\ latent_size' = <<>>
    /\ warnings' = 0
    /\ pos' = 0
    /\ conditioning' = Unbound
    /\ x_t' = Unbound
    /\ i' = 0
    /\ decoded' = <<>>
    /\ peak' = 0
    /\ mem' = NoMem
    /\ refs' = {"t5", "flow"}
    /\ start' = -1
    /\ elapsed_time' = -1
    /\ files' = <<>>
    /\ printed' = 0
    /\ trace' = <<>>
    /\ UNCHANGED <<yields, heavy>>

InitVerbosity == Init /\ ~args.verbose

NextVerbosity == Next \/ RunAgain

SpecVerbosity == InitVerbosity /\ [][NextVerbosity]_vars

(***************************************************************************)
(* The script with --output varied, on a Pipeline that keeps its contract  *)
(* (one denoising step, two items yielded).                                *)
(***************************************************************************)
InitNaming ==
    /\ pc = "make_generator"
    /\ args \in [n_images : 1..MaxImages, steps : {1},
                  decoding_batch_size : 1..MaxBatch, n_rows : {1},
                  save_raw : BOOLEAN, verbose : BOOLEAN,
                  image_size : {DefaultImageSize}, output : Outputs]
    /\ yields = 2
    /\ heavy = "generation"
    /\ InitCommon

SpecNaming == InitNaming /\ [][Next]_vars

(***************************************************************************)
(* Reading the history.                                                    *)
(***************************************************************************)
At(op) == {k \in 1..Len(trace) : trace[k].op = op}
AtAny(ops) == {k \in 1..Len(trace) : trace[k].op \in ops}
\* pulls that obtained an item (arg is the item's index in the sequence)
Got(op) == {k \in At(op) : trace[k].arg >= 0}
IsPull(e) == e.op \in {"pull_conditioning", "pull_x_t"} /\ e.arg >= 0
PulledItems == SelectSeq(trace, IsPull)
AllBefore(A, B) == \A a \in A, b \in B : a < b

\* the denoising loop has ended (its next() met the end of the sequence)
AfterDenoising == \E k \in At("pull_x_t") : trace[k].arg = -1

(***************************************************************************)
(* C1: when the sequence yields num_steps + 1 items, the run obtains        *)
(* exactly those num_steps + 1 items, in order, none skipped and none      *)
(* pulled twice: exactly 1 by the conditioning pull (item 0) and exactly   *)
(* num_steps by the denoising loop (items 1..num_steps).                   *)
(***************************************************************************)
C1_ExactPullCount ==
    yields = args.steps + 1 =>
        /\ \A k \in 1..Len(PulledItems) : PulledItems[k].arg = k - 1
        /\ Cardinality(Got("pull_conditioning")) <= 1
        /\ AfterDenoising =>
              /\ Len(PulledItems) = args.steps + 1
              /\ Cardinality(Got("pull_conditioning")) = 1
              /\ Cardinality(Got("pull_x_t")) = args.steps
              /\ conditioning = Item(0, args.n_images)
              /\ args.steps >= 1 => x_t = Item(args.steps, args.n_images)

C1_Witness ==
    /\ pc = "done"
    /\ yields = args.steps + 1
    /\ args.steps >= 2
    /\ Len(PulledItems) = args.steps + 1

(***************************************************************************)
(* C2: the stages are strictly sequential.  The conditioning item is       *)
(* pulled and evaluated before the first denoising pull; every denoising   *)
(* item is evaluated right after its pull, and the sequence is exhausted,  *)
(* before the first decode call; decode calls are issued in increasing     *)
(* start index, each evaluated before the next decode call.                *)
(***************************************************************************)
C2_StagesSequential ==
    /\ At("pull_x_t") # {} =>
          /\ Got("pull_conditioning") # {} /\ At("eval_conditioning") # {}
          /\ AllBefore(At("pull_conditioning"), At("eval_conditioning"))
          /\ AllBefore(At("eval_conditioning"), At("pull_x_t"))
    /\ \A k \in Got("pull_x_t") :
          k < Len(trace) => trace[k + 1] = Ev("eval_x_t", trace[k].arg)
    /\ At("decode") # {} =>
          /\ AfterDenoising
          /\ AllBefore(AtAny({"pull_x_t", "eval_x_t"}), At("decode"))
    /\ \A k \in At("decode") :
          /\ k < Len(trace) => trace[k + 1] = Ev("eval_decoded", trace[k].arg)
          /\ \A m \in At("decode") : k < m => trace[k].arg < trace[m].arg

C2_Witness ==
    /\ pc = "done"
    /\ Cardinality(Got("pull_x_t")) >= 2
    /\ Cardinality(At("decode")) >= 2
    /\ Cardinality(At("eval_decoded")) = Cardinality(At("decode"))

(***************************************************************************)
(* C3 as claimed: the reported elapsed time covers the denoising phase     *)
(* only -- the timer is stopped when the denoising loop is exhausted,      *)
(* before the first decode call and before any output file is written.     *)
(***************************************************************************)
C3_ElapsedIsDenoisingOnly ==
    \A k \in AtAny({"decode", "eval_decoded", "write"}) :
        \E e \in At("timer_end") : e < k

(***************************************************************************)
(* C3 as amended: the timer is started after the conditioning item has     *)
(* been evaluated and is stopped only after the last decode call and the   *)
(* last output write, so the reported elapsed time covers denoising,       *)
(* decoding and output assembly; only conditioning is excluded from it.    *)
(***************************************************************************)
C3_ElapsedCoversDecodingAndOutput ==
    /\ AllBefore(AtAny({"pull_conditioning", "eval_conditioning"}), At("timer_start"))
    /\ AllBefore(At("timer_start"),
                 AtAny({"pull_x_t", "eval_x_t", "decode", "eval_decoded", "write"}))
    /\ AllBefore(AtAny({"pull_x_t", "eval_x_t", "decode", "eval_decoded", "write"}),
                 At("timer_end"))
    /\ At("timer_end") = {} => elapsed_time = -1
    /\ \A e \in At("timer_end") : \A b \in At("timer_start") :
          /\ elapsed_time = e - b
          /\ \A k \in (b + 1)..(e - 1) :
                trace[k].op \in {"pull_x_t", "eval_x_t", "del_flow", "peak_read",
                                 "peak_reset", "decode", "eval_decoded", "write"}
          /\ \E k \in (b + 1)..(e - 1) : trace[k].op = "write"
          /\ \E k \in (b + 1)..(e - 1) : trace[k].op = "decode"

C3_Witness ==
    /\ pc = "done"
    /\ elapsed_time > 0
    /\ Cardinality(At("decode")) >= 2
    /\ Cardinality(At("write")) >= 2
    /\ Cardinality(Got("pull_x_t")) >= 1

(***************************************************************************)
(* C4: the first item pulled is the conditioning and lies outside the      *)
(* timing window: the timer is started strictly after the conditioning     *)
(* pull, its evaluation and the conditioning peak read and reset, and      *)
(* strictly before the first denoising pull.                               *)
(***************************************************************************)
C4_ConditioningOutsideTimer ==
    /\ Cardinality(At("timer_start")) <= 1
    /\ At("pull_x_t") # {} => At("timer_start") # {}
    /\ \A b \in At("timer_start") :
          /\ start = b - 1
          /\ \E k \in 1..start : trace[k] = Ev("pull_conditioning", 0)
          /\ \E k \in 1..start : trace[k] = Ev("eval_conditioning", 0)
          /\ \E k \in 1..start : trace[k] = Ev("peak_read", 0)
          /\ \E k \in 1..start : trace[k] = Ev("peak_reset", 0)
          /\ \A k \in At("pull_x_t") : k > b
          /\ \A k \in AtAny({"pull_conditioning", "eval_conditioning"}) : k <= start
    /\ At("timer_start") = {} => start = -1

C4_Witness ==
    /\ At("timer_start") # {}
    /\ Got("pull_x_t") # {}
    /\ start > 0

(***************************************************************************)
(* C5 as claimed: whenever the number of items the sequence yields differs *)
(* from num_steps + 1, the run fails and never proceeds to decoding and    *)
(* writing an output artifact.                                             *)
(***************************************************************************)
C5_MismatchIsFatal ==
    yields # args.steps + 1 =>
        /\ At("decode") = {}
        /\ files = <<>>
        /\ pc # "done"

(***************************************************************************)
(* C5 as amended: a mismatch is fatal only when it leaves no latent to     *)
(* decode.  When the sequence yields no item the conditioning pull fails   *)
(* (StopIteration); when it yields only the conditioning item the first    *)
(* decode attempt fails (NameError); in both cases no decode call is made  *)
(* and no output is written.  When it yields two or more items, but not    *)
(* num_steps + 1, the mismatch goes undetected: the loop pulls every       *)
(* remaining item and the run goes on to decoding with the last one.       *)
(***************************************************************************)
C5_MismatchFatalOnlyWithoutLatent ==
    yields # args.steps + 1 =>
        /\ yields <= 1 =>
              /\ At("decode") = {} /\ At("write") = {} /\ files = <<>>
              /\ pc \notin {"eval_decoded", "read_peak_decoding", "save_raw", "save_grid",
                            "timer_end", "report", "done"}
              /\ pc = "failed" =>
                    error = IF yields = 0 THEN "StopIteration" ELSE "NameError"
        /\ yields >= 2 =>
              /\ error \notin {"StopIteration", "NameError"}
              /\ AfterDenoising =>
                    /\ Len(PulledItems) = yields
                    /\ x_t = Item(yields - 1, args.n_images)
              /\ pc = "done" => At("decode") # {} /\ files # <<>>

C5_Witness ==
    /\ yields # args.steps + 1
    /\ yields >= 2
    /\ pc = "done"
    /\ files # <<>>

\* the decoding loop has run to its end
DecodingDone == \E k \in At("peak_read") : trace[k].arg = 2

\* one decode call on the whole final latent batch
FullDecode == Decode(x_t, latent_size)

(***************************************************************************)
(* C6: concatenating the sub-batch decode results in the order they were   *)
(* produced gives, at every index, the same image as one full-batch decode *)
(* of the final latent batch: no index dropped, duplicated or reordered.   *)
(* In raw mode file k holds image k of that batch.                         *)
(***************************************************************************)
C6_ConcatEqualsFullDecode ==
    /\ (decoded # <<>> /\ x_t # Unbound) =>
          LET got == Concatenate(decoded)
          IN  got = Decode(Slice(x_t, 0, got.shape[1]), latent_size)
    /\ DecodingDone =>
          /\ Concatenate(decoded).shape[1] = args.n_images
          /\ \A k \in 0..(args.n_images - 1) :
                ImageAt(Concatenate(decoded), k) = ImageAt(FullDecode, k)
    /\ args.save_raw =>
          \A k \in 1..Len(files) :
              files[k].image = Quantize(ImageAt(FullDecode, k - 1))

C6_Witness ==
    /\ pc = "done"
    /\ args.save_raw
    /\ Len(decoded) >= 2
    /\ args.n_images % args.decoding_batch_size # 0
    /\ Len(files) = args.n_images

\* pixel (y, x, ch) of image img of the full decode, padded and quantized
PaddedPixel(img, y, x, ch) ==
    IF /\ y >= GridPad /\ y < GridPad + ImgH
       /\ x >= GridPad /\ x < GridPad + ImgW
    THEN ToUint8(FullDecode.data[((img * ImgH + (y - GridPad)) * ImgW + (x - GridPad)) * ImgC
                                 + ch + 1])
    ELSE 0

(***************************************************************************)
(* C7: in grid mode with n_images divisible by n_rows the grid has size    *)
(* (n_rows*(H+8), (n_images/n_rows)*(W+8), C) and its block (r, c) is      *)
(* decoded image r*(n_images/n_rows) + c inside a 4-pixel zero border;     *)
(* for 4 images of 64x64x3 in 2 rows the grid is (144, 144, 3).            *)
(***************************************************************************)
C7_GridLayout ==
    /\ GridShape(<<4, 64 + 2 * GridPad, 64 + 2 * GridPad, 3>>, 2) = <<144, 144, 3>>
    /\ (~args.save_raw /\ args.n_images % args.n_rows = 0) => error # "ValueError"
    /\ (~args.save_raw /\ files # <<>>) =>
          LET g == files[1].image
              cols == args.n_images \div args.n_rows
              HP == ImgH + 2 * GridPad
              WP == ImgW + 2 * GridPad
          IN  /\ Len(files) = 1
              /\ args.n_images % args.n_rows = 0
              /\ g.shape = <<args.n_rows * HP, cols * WP, ImgC>>
              /\ Len(g.data) = args.n_rows * HP * cols * WP * ImgC
              /\ \A r \in 0..(args.n_rows - 1) : \A c \in 0..(cols - 1) :
                 \A y \in 0..(HP - 1) : \A x \in 0..(WP - 1) : \A ch \in 0..(ImgC - 1) :
                    g.data[((r * HP + y) * (cols * WP) + (c * WP + x)) * ImgC + ch + 1]
                        = PaddedPixel(r * cols + c, y, x, ch)

C7_Witness ==
    /\ pc = "done"
    /\ ~args.save_raw
    /\ args.n_images = 4
    /\ args.n_rows = 2
    /\ Len(files) = 1

(***************************************************************************)
(* C8: in grid mode with n_images not divisible by n_rows (n_rows larger   *)
(* than n_images included) the run fails at the reshape and no grid file   *)
(* is ever written.                                                        *)
(***************************************************************************)
C8_NonDivisibleGridRejected ==
    (~args.save_raw /\ args.n_images % args.n_rows # 0) =>
        /\ files = <<>>
        /\ At("write") = {}
        /\ pc \notin {"timer_end", "report", "done"}
        /\ (pc = "failed" /\ DecodingDone) => error = "ValueError"

C8_WitnessMoreRowsThanImages ==
    /\ ~args.save_raw
    /\ args.n_images % args.n_rows # 0
    /\ args.n_rows > args.n_images
    /\ pc = "failed"
    /\ error = "ValueError"

C8_Witness ==
    /\ ~args.save_raw
    /\ args.n_images % args.n_rows # 0
    /\ args.n_images > args.n_rows
    /\ pc = "failed"
    /\ error = "ValueError"

(***************************************************************************)
(* The resolver's claims, over the runs of SpecResolver.                   *)
(***************************************************************************)
Resolved == pc = "pull_conditioning"
GivenW == args.image_size[1]
GivenH == args.image_size[2]
\* the smallest multiple of 16 that is >= d
NextMultiple(d) == CHOOSE m \in d..(d + Granularity) :
                      m % Granularity = 0 /\ \A n \in d..(m - 1) : n % Granularity # 0

(***************************************************************************)
(* C9: for a size whose two dimensions are positive multiples of 16,       *)
(* width # height included, to_latent_size returns (height/8, width/8)     *)
(* and emits no diagnostic.                                                *)
(***************************************************************************)
C9_MultiplesNoDiagnostic ==
    (Resolved /\ GivenW % Granularity = 0 /\ GivenH % Granularity = 0) =>
        /\ latent_size = <<GivenH \div Downscale, GivenW \div Downscale>>
        /\ warnings = 0

(***************************************************************************)
(* C10: for a size with a dimension that is not a multiple of 16,          *)
(* to_latent_size rounds each dimension up to the smallest multiple of 16  *)
(* that is >= it, emits exactly one diagnostic and returns                 *)
(* (rounded_height/8, rounded_width/8), both positive integers.            *)
(***************************************************************************)
C10_RoundsUpWithOneDiagnostic ==
    (Resolved /\ (GivenW % Granularity # 0 \/ GivenH % Granularity # 0)) =>
        /\ warnings = 1
        /\ latent_size[1] * Downscale = NextMultiple(GivenH)
        /\ latent_size[2] * Downscale = NextMultiple(GivenW)
        /\ latent_size[1] > 0 /\ latent_size[2] > 0

C10_Witness ==
    /\ Resolved
    /\ GivenW % Granularity # 0
    /\ GivenH % Granularity = 0
    /\ GivenW > Granularity
    /\ warnings = 1

HasDot(s) == \E d \in 1..Len(s) : s[d] = "."
LastDot(s) == CHOOSE d \in 1..Len(s) : s[d] = "." /\ \A j \in (d + 1)..Len(s) : s[j] # "."
IndexedName(s, k) ==
    SubSeq(s, 1, LastDot(s) - 1) \o <<".">> \o Str(k) \o <<".">>
        \o SubSeq(s, LastDot(s) + 1, Len(s))
ResultPng == <<"r", "e", "s", "u", "l", "t", ".", "p", "n", "g">>

(***************************************************************************)
(* C11: in raw mode, for an output path <base>.<ext> (<ext> the text after *)
(* the last dot) and n decoded images, exactly n files are written, named  *)
(* <base>.<i>.<ext> for i = 0..n-1 in increasing i, image i in file i;     *)
(* for result.png and 3 images: result.0.png, result.1.png, result.2.png.  *)
(***************************************************************************)
C11_RawFileNames ==
    (args.save_raw /\ HasDot(args.output)) =>
        /\ \A k \in 1..Len(files) :
              /\ files[k].name = IndexedName(args.output, k - 1)
              /\ files[k].image = Quantize(ImageAt(FullDecode, k - 1))
        /\ Len(files) <= args.n_images
        /\ pc \in {"timer_end", "report", "done"} => Len(files) = args.n_images
        /\ (args.output = ResultPng /\ Len(files) = 3) =>
              /\ files[1].name = <<"r", "e", "s", "u", "l", "t", ".", "0", ".", "p", "n", "g">>
              /\ files[2].name = <<"r", "e", "s", "u", "l", "t", ".", "1", ".", "p", "n", "g">>
              /\ files[3].name = <<"r", "e", "s", "u", "l", "t", ".", "2", ".", "p", "n", "g">>

C11_Witness ==
    /\ pc = "done"
    /\ args.save_raw
    /\ args.output = <<"a", ".", "b", ".", "p", "n", "g">>
    /\ Len(files) = 3
    /\ files[3].name = <<"a", ".", "b", ".", "2", ".", "p", "n", "g">>

(***************************************************************************)
(* C12: the overall reported peak equals the maximum of the three phase    *)
(* peaks (conditioning, generation, decoding) and is never their sum.      *)
(***************************************************************************)
C12_OverallIsMax ==
    /\ ~DecodingDone => mem.overall = -1
    /\ DecodingDone =>
          /\ mem.overall >= mem.conditioning
          /\ mem.overall >= mem.generation
          /\ mem.overall >= mem.decoding
          /\ mem.overall \in {mem.conditioning, mem.generation, mem.decoding}
          /\ mem.conditioning > 0 /\ mem.generation > 0 /\ mem.decoding > 0
          /\ mem.overall # mem.conditioning + mem.generation + mem.decoding

C12_Witness ==
    /\ pc = "done"
    /\ heavy = "generation"
    /\ mem.generation = MemHigh
    /\ mem.overall = MemHigh
    /\ mem.conditioning = MemLow

(***************************************************************************)
(* C13: each peak reading is phase-local.  The counter is read then reset  *)
(* right after the conditioning evaluation and again right after the       *)
(* denoising loop, and nowhere else; peak_mem_generation reflects only the *)
(* memory used by the denoising evaluations and peak_mem_decoding only     *)
(* that of the decode evaluations, so a high peak of an earlier phase      *)
(* never shows in a later reading.                                         *)
(***************************************************************************)
C13_PhaseLocalPeaks ==
    /\ Cardinality(At("peak_reset")) <= 2
    /\ \A k \in At("peak_reset") :
          /\ trace[k].arg \in {0, 1}
          /\ trace[k - 1] = Ev("peak_read", trace[k].arg)
          /\ \A m \in At("peak_reset") : m # k => trace[m].arg # trace[k].arg
    /\ \A k \in At("peak_read") :
          /\ trace[k].arg = 0 => trace[k - 1].op = "eval_conditioning"
          /\ trace[k].arg = 1 =>
                trace[k - 1].op = "del_flow" /\ trace[k - 2] = Ev("pull_x_t", -1)
          /\ trace[k].arg = 2 => trace[k - 1].op = "eval_decoded"
          /\ k < Len(trace) /\ trace[k].arg < 2 => trace[k + 1] = Ev("peak_reset", trace[k].arg)
    /\ (\E k \in At("peak_read") : trace[k].arg = 0) =>
          mem.conditioning = Usage("conditioning")
    /\ (\E k \in At("peak_read") : trace[k].arg = 1) =>
          /\ mem.generation = IF At("eval_x_t") # {} THEN Usage("generation") ELSE 0
          /\ heavy = "conditioning" => mem.generation < MemHigh
    /\ (\E k \in At("peak_read") : trace[k].arg = 2) =>
          /\ mem.decoding = Usage("decoding")
          /\ heavy # "decoding" => mem.decoding < MemHigh

C13_Witness ==
    /\ pc = "done"
    /\ heavy = "conditioning"
    /\ mem.conditioning = MemHigh
    /\ mem.generation = MemLow
    /\ mem.decoding = MemLow

(***************************************************************************)
(* C14: the verbosity flag affects printing only.  A run with --verbose    *)
(* performs the same sequence of pulls, evaluations, peak reads and        *)
(* resets, model releases, decode calls and file writes as the run without *)
(* it on the same inputs, and computes the same phase peaks and overall    *)
(* peak; only the five telemetry lines differ.                             *)
(***************************************************************************)
C14_VerboseOnlyPrints ==
    shadow.run = 1 =>
        /\ args.verbose
        /\ Len(trace) <= Len(shadow.trace)
        /\ trace = SubSeq(shadow.trace, 1, Len(trace))
        /\ pc \in {"done", "failed"} =>
              /\ pc = shadow.pc
              /\ error = shadow.error
              /\ trace = shadow.trace
              /\ mem = shadow.mem
              /\ refs = shadow.refs
              /\ files = shadow.files
              /\ elapsed_time = shadow.elapsed_time
        /\ pc = "done" => printed = 5 /\ shadow.printed = 0

C14_Witness ==
    /\ shadow.run = 1
    /\ pc = "done"
    /\ shadow.pc = "done"
    /\ printed = 5
    /\ shadow.printed = 0
    /\ mem.overall = MemHigh
    /\ Len(files) >= 2

\* the decode calls and the file writes, in the order they were made
IsDecode(e) == e.op = "decode"
DecodeCalls == SelectSeq(trace, IsDecode)
IsWrite(e) == e.op = "write"
Writes == SelectSeq(trace, IsWrite)
\* number of values of one decoded image
PerImage == ImgH * ImgW * ImgC
\* images lo..hi-1 of a decoded batch, as flat data
ImagesOf(x, lo, hi) == SubSeq(x.data, lo * PerImage + 1, hi * PerImage)

(***************************************************************************)
(* C15: the decode calls are issued on the index ranges [0,b), [b,2b), ... *)
(* clipped to n_images: contiguous, disjoint, covering [0, n_images), each *)
(* of length b except possibly a shorter last one; there are               *)
(* ceil(n_images / b) calls, and exactly one when b >= n_images.           *)
(***************************************************************************)
C15_DecodeRanges ==
    LET n == args.n_images
        b == args.decoding_batch_size
    IN  /\ Len(DecodeCalls) = Len(decoded)
        /\ \A k \in 1..Len(decoded) :
              LET lo == (k - 1) * b
                  len == decoded[k].shape[1]
              IN  /\ DecodeCalls[k].arg = lo
                  /\ lo < n
                  /\ len >= 1 /\ len <= b
                  /\ len = IF lo + b <= n THEN b ELSE n - lo
                  /\ len < b => lo + len = n
                  /\ decoded[k].data = ImagesOf(FullDecode, lo, lo + len)
        /\ DecodingDone =>
              /\ Len(decoded) = (n + b - 1) \div b
              /\ SumTo([k \in 1..Len(decoded) |-> decoded[k].shape[1]], Len(decoded)) = n
              /\ b >= n => Len(decoded) = 1 /\ decoded[1].shape[1] = n

C15_Witness ==
    /\ pc = "done"
    /\ args.n_images = 4
    /\ args.decoding_batch_size = 3
    /\ Len(decoded) = 2
    /\ decoded[2].shape[1] = 1

(***************************************************************************)
(* C16: model references are released only at safe points.  The text       *)
(* encoder is dropped only after the conditioning item has been pulled and *)
(* evaluated; the flow network only after the denoising loop has exhausted *)
(* the sequence; no item is pulled after the flow network is dropped; each *)
(* reference is dropped at most once.                                      *)
(***************************************************************************)
C16_ReleasesAtSafePoints ==
    /\ Cardinality(At("del_t5")) <= 1
    /\ Cardinality(At("del_flow")) <= 1
    /\ ("t5" \in refs) <=> (At("del_t5") = {})
    /\ ("flow" \in refs) <=> (At("del_flow") = {})
    /\ \A k \in At("del_t5") :
          /\ \E m \in 1..(k - 1) : trace[m] = Ev("pull_conditioning", 0)
          /\ \E m \in 1..(k - 1) : trace[m] = Ev("eval_conditioning", 0)
          /\ \A m \in AtAny({"pull_conditioning", "eval_conditioning"}) : m < k
    /\ \A k \in At("del_flow") :
          /\ \E m \in 1..(k - 1) : trace[m] = Ev("pull_x_t", -1)
          /\ \A m \in AtAny({"pull_conditioning", "pull_x_t", "eval_x_t"}) : m < k

C16_Witness ==
    /\ pc = "done"
    /\ refs = {}
    /\ Cardinality(Got("pull_x_t")) >= 2

(***************************************************************************)
(* C17: when the denoising loop has pulled at least one item, the latent   *)
(* batch handed to every decode call is the last item pulled, never the    *)
(* conditioning item and never an earlier denoising item; during the loop  *)
(* only the most recently pulled item is retained.                         *)
(***************************************************************************)
C17_DecodesLastItem ==
    Got("pull_x_t") # {} =>
        LET last == pos - 1
            n == args.n_images
            b == args.decoding_batch_size
        IN  /\ last >= 1
            /\ \E k \in Got("pull_x_t") :
                  trace[k].arg = last /\ \A m \in Got("pull_x_t") : m <= k
            /\ x_t = Item(last, n)
            /\ x_t # conditioning
            /\ \A k \in 1..Len(decoded) :
                  LET lo == (k - 1) * b
                      hi == lo + decoded[k].shape[1]
                  IN  /\ decoded[k].data = ImagesOf(Decode(Item(last, n), latent_size), lo, hi)
                      /\ \A j \in 0..(last - 1) :
                            decoded[k].data # ImagesOf(Decode(Item(j, n), latent_size), lo, hi)

C17_Witness ==
    /\ pc = "done"
    /\ Cardinality(Got("pull_x_t")) >= 2
    /\ Len(decoded) >= 2

(***************************************************************************)
(* C18: when the sequence yields the conditioning item and no denoising    *)
(* item, there is no latent to decode: the run fails at the first decode   *)
(* attempt (NameError), no decode call reaches the Pipeline, no file is    *)
(* written, and the conditioning item is never decoded in its place.       *)
(***************************************************************************)
C18_NoLatentNoDecode ==
    yields = 1 =>
        /\ x_t = Unbound
        /\ At("decode") = {}
        /\ decoded = <<>>
        /\ At("write") = {}
        /\ files = <<>>
        /\ pc \notin {"eval_decoded", "read_peak_decoding", "save_raw", "save_grid",
                      "timer_end", "report", "done"}
        /\ pc = "failed" => error = "NameError" /\ AfterDenoising

C18_Witness ==
    /\ yields = 1
    /\ args.steps = 0
    /\ pc = "failed"
    /\ error = "NameError"
    /\ conditioning = Item(0, args.n_images)

(***************************************************************************)
(* C19: no output file is written before every sub-batch has been decoded  *)
(* and evaluated and the decoding peak has been recorded.  A run that      *)
(* fails (conditioning, denoising, decoding, grid reshape) leaves no       *)
(* output file; grid mode writes at most one file; raw mode writes its     *)
(* files in increasing image index.                                        *)
(***************************************************************************)
C19_OutputOnlyAfterDecoding ==
    /\ Len(Writes) = Len(files)
    /\ \A w \in At("write") :
          /\ \E m \in 1..(w - 1) : trace[m] = Ev("peak_read", 2)
          /\ \A m \in AtAny({"decode", "eval_decoded"}) : m < w
          /\ Cardinality(At("decode")) = Cardinality(At("eval_decoded"))
          /\ Len(decoded) = (args.n_images + args.decoding_batch_size - 1)
                               \div args.decoding_batch_size
    /\ pc = "failed" => files = <<>> /\ Writes = <<>>
    /\ ~args.save_raw => Len(files) <= 1
    /\ args.save_raw => \A k \in 1..Len(Writes) : Writes[k].arg = k - 1

C19_Witness ==
    /\ pc = "done"
    /\ args.save_raw
    /\ Len(files) >= 3

C19_WitnessFailedRun ==
    /\ pc = "failed"
    /\ error = "ValueError"
    /\ Len(decoded) >= 2
    /\ files = <<>>

====
